---- MODULE Spec2Model ----
(***************************************************************************)
(* The transcription session controller (the useTranscription hook) and    *)
(* the transport client (TranscriptionAPI) it drives, as found in          *)
(* src/src/components/ui/YouTubeInput.tsx, lines 736-1425.                 *)
(*                                                                         *)
(* Execution model: the JavaScript event loop.  Every action below is one  *)
(* callback run to completion (a user call up to its first await, the      *)
(* continuation after an await, a timer, a socket event).  The hook's      *)
(* callbacks read the state of the latest render; the model renders after  *)
(* every callback, so the closure values are the current state.            *)
(***************************************************************************)
EXTENDS Integers, FiniteSets, Sequences, TLC

\* ------------------------------------------------------------------ bounds
\* Number of processFile / startTranscription calls made on one controller.
MaxOps == 2

OpIds == 1..MaxOps

\* ------------------------------------------------------------- value sets
None == "none"

FileNames == {"a.wav"}

\* TaskStatus of types.ts
TaskStatus == {"pending", "processing", "completed", "failed"}

\* The status a submit response carries: the new job is queued or running.
SubmitStatuses == {"pending", "processing"}

\* Values Math.random() * 50 + 25 can take (two representatives of [25, 75)).
PollRandom == {30, 50}

\* The xhr upload progress events of a body of two chunks (lengthComputable):
\* one chunk sent, all sent.
XhrEvents == {[loaded |-> 1, total |-> 2], [loaded |-> 2, total |-> 2]}

\* The percentage the progress listener passes to onProgress.
ProgressOf(e) == (e.loaded * 100) \div e.total

\* Percentages the xhr progress events report.
XhrProgress == {ProgressOf(e) : e \in XhrEvents}

\* Messages
MsgUploadFailed == "Upload failed"
MsgUploadCancelled == "Upload cancelled"
MsgFileInfoFailed == "Failed to get file info"
MsgSubmitFailed == "Transcription failed to start"
MsgCancelUpload == "Iptal edildi"
MsgCancelJob == "Islem kullanici tarafindan iptal edildi"
MsgJobError == "job error"
MsgPushError == "push error"

\* A TranscriptionResponse as the controller keeps it (task id, status, error).
Response(t, st) ==
    [task_id |-> t, status |-> st, error |-> IF st = "failed" THEN MsgJobError ELSE None]

\* The absent result (result: undefined).
NoResult == [task_id |-> 0, status |-> None, error |-> None]

\* Payloads of push frames of type "progress": an absent field is 0 / None,
\* which the || of the handler treats like the absent field.
ProgressAbsent == [progress |-> 0, stage |-> None, message |-> None]

ProgressFrames ==
    { ProgressAbsent, [progress |-> 40, stage |-> "decoding", message |-> "working"] }

\* Payloads of push frames of type "status".
StatusFrames == [status : TaskStatus, progress : {0, 40}]

\* Payloads of push frames of type "error" (the error field may be absent).
ErrorFrames == {None, MsgPushError}

\* -------------------------------------------------------------- variables
VARIABLES
    uploadState,        \* useState<UploadState>
    transcriptionState, \* useState<TranscriptionState>
    fileInfo,           \* useState<FileInfo | null>: 0 or the op that set it
    uploadedFile,       \* useState<FileUploadResponse | null>: 0 or the op
    stopPollingRef,     \* useRef: 0 or the polling loop whose stop it holds
    wsRef,              \* useRef: 0 or the channel it holds
    toastIdRef,         \* useRef: 0 or a toast id
    abortControllers,   \* TranscriptionAPI.abortControllers: name -> xhr (op) or 0
    ops,                \* the processFile calls: where each is suspended
    loops,              \* the closures created by pollTaskStatus
    chans,              \* the WebSockets created by connectWebSocket
    cancelled,          \* history: the calls made before the last cancel(), if
                        \* no call was made since
    effects             \* what the controller did to its environment since the
                        \* last processFile call: onError callbacks, download
                        \* requests, clipboard writes

vars == <<uploadState, transcriptionState, fileInfo, uploadedFile, stopPollingRef,
          wsRef, toastIdRef, abortControllers, ops, loops, chans, cancelled, effects>>

\* ------------------------------------------------------------ initial state
UploadInit == [file |-> None, uploading |-> FALSE, progress |-> 0, error |-> None]

TranscriptionInit ==
    [taskId |-> 0, status |-> "pending", progress |-> 0, stage |-> None,
     message |-> None, result |-> NoResult, error |-> None]

\* A processFile call: where it is suspended, the file, the last percentage its
\* transfer reported, the response of api.uploadFile (its file_id, 0: none) and
\* the fileId argument startTranscription was called with (0: not called).
OpInit == [pc |-> "idle", file |-> None, loaded |-> 0, response |-> 0, fileId |-> 0]

\* A polling closure: "none" when none exists (not created yet, or it has ended
\* and nothing refers to its timer or request any more).  requests counts the
\* getTaskStatus calls of poll() that have not settled, timers the setTimeout
\* calls of poll() whose timer has not fired.
LoopInit == [pc |-> "none", stopped |-> FALSE, delay |-> 0, requests |-> 0, timers |-> 0]

\* The formats downloadResult accepts.
Formats == {"txt", "srt", "json"}

\* No api.downloadResult request was issued.
NoDownload == [task |-> 0, format |-> None]

\* onError, onSuccess: calls of the onError and onSuccess options (each comes
\* with an error or a success toast); download: the last api.downloadResult
\* request; clipboard: the task whose text the last
\* navigator.clipboard.writeText call was given (0: none); requests: what
\* startTranscription put on the wire after the submit response, in order.
EffectsInit ==
    [onError |-> 0, onSuccess |-> 0, download |-> NoDownload, clipboard |-> 0,
     requests |-> <<>>]

Init ==
    /\ uploadState = UploadInit
    /\ transcriptionState = TranscriptionInit
    /\ fileInfo = 0
    /\ uploadedFile = 0
    /\ stopPollingRef = 0
    /\ wsRef = 0
    /\ toastIdRef = 0
    /\ abortControllers = [n \in FileNames |-> 0]
    /\ ops = [o \in OpIds |-> OpInit]
    /\ loops = [o \in OpIds |-> LoopInit]
    /\ chans = [o \in OpIds |-> "none"]
    /\ cancelled = {}
    /\ effects = EffectsInit

\* Toast ids: toast.loading returns a fresh id per call.
UploadToast(o) == 2 * o - 1
StartToast(o) == 2 * o

\* A rejected promise continuation (the abort of an upload) is a microtask: it
\* runs before any other callback.
MicrotaskPending == \E o \in OpIds : ops[o].pc = "aborted"

\* The next processFile call uses the first unused op.
NextOp(o) == /\ ops[o].pc = "idle"
             /\ \A p \in OpIds : p < o => ops[p].pc # "idle"

\* ---------------------------------------------------------------- uploadFile
\* processFile -> uploadFile up to the await of api.uploadFile.
ProcessFile(o, f) ==
    /\ ~MicrotaskPending
    /\ NextOp(o)
    /\ uploadState' = [file |-> f, uploading |-> TRUE, progress |-> 0, error |-> None]
    /\ toastIdRef' = UploadToast(o)
    /\ abortControllers' = [abortControllers EXCEPT ![f] = o]
    /\ ops' = [ops EXCEPT ![o] = [OpInit EXCEPT !.pc = "uploading", !.file = f]]
    /\ cancelled' = {}
    /\ effects' = EffectsInit
    /\ UNCHANGED <<transcriptionState, fileInfo, uploadedFile, stopPollingRef, wsRef,
                   loops, chans>>

\* xhr.upload 'progress' event -> onProgress.
UploadProgress(o, p) ==
    /\ ~MicrotaskPending
    /\ ops[o].pc = "uploading"
    /\ p > ops[o].loaded
    /\ uploadState' = [uploadState EXCEPT !.progress = p]
    /\ ops' = [ops EXCEPT ![o].loaded = p]
    /\ UNCHANGED <<effects, cancelled, transcriptionState, fileInfo, uploadedFile, stopPollingRef, wsRef,
                   toastIdRef, abortControllers, loops, chans>>

\* xhr 'load' with a 2xx status: the continuation of uploadFile up to the await
\* of api.getFileInfo.
UploadOk(o) ==
    /\ ~MicrotaskPending
    /\ ops[o].pc = "uploading"
    /\ uploadedFile' = o
    /\ uploadState' = [uploadState EXCEPT !.uploading = FALSE, !.progress = 100]
    /\ toastIdRef' = 0
    /\ ops' = [ops EXCEPT ![o].pc = "fileinfo", ![o].loaded = 0, ![o].response = o]
    /\ UNCHANGED <<effects, cancelled, transcriptionState, fileInfo, stopPollingRef, wsRef,
                   abortControllers, loops, chans>>

\* Mutant: the catch block leaves UploadState.error as it was.
UploadCatchSilent(o, msg) ==
    /\ uploadState' = [uploadState EXCEPT !.uploading = FALSE]
    /\ toastIdRef' = 0
    /\ effects' = [effects EXCEPT !.onError = @ + 1]
    /\ ops' = [ops EXCEPT ![o] = [OpInit EXCEPT !.pc = "done", !.file = ops[o].file]]
    /\ UNCHANGED <<cancelled, transcriptionState, fileInfo, uploadedFile, stopPollingRef, wsRef,
                   abortControllers, loops, chans>>

\* The catch block of uploadFile with the given message; uploadFile returns null
\* and processFile ends.
UploadCatch(o, msg) ==
    /\ uploadState' = [uploadState EXCEPT !.uploading = FALSE, !.error = msg]
    /\ toastIdRef' = 0
    /\ effects' = [effects EXCEPT !.onError = @ + 1]
    /\ ops' = [ops EXCEPT ![o] = [OpInit EXCEPT !.pc = "done", !.file = ops[o].file]]
    /\ UNCHANGED <<cancelled, transcriptionState, fileInfo, uploadedFile, stopPollingRef, wsRef,
                   abortControllers, loops, chans>>

\* xhr 'error', or 'load' with a non-2xx status or an unparsable body.
UploadFail(o) ==
    /\ ~MicrotaskPending
    /\ ops[o].pc = "uploading"
    /\ UploadCatch(o, MsgUploadFailed)

\* xhr 'abort' (raised by cancelUpload): the rejection reaches the catch block.
UploadAborted(o) ==
    /\ ops[o].pc = "aborted"
    /\ UploadCatch(o, MsgUploadCancelled)

\* getFileInfo fails: the same catch block.
FileInfoFail(o) ==
    /\ ~MicrotaskPending
    /\ ops[o].pc = "fileinfo"
    /\ UploadCatch(o, MsgFileInfoFailed)

\* ---------------------------------------------------------- startTranscription
\* Mutant: processFile reads the file id from the uploadedFile state.
SubmittedFileIdFromState(o) == uploadedFile

\* The fileId processFile passes on: uploadResult.file_id, of the value uploadFile
\* returned.
SubmittedFileId(o) == ops[o].response

\* getFileInfo succeeds; uploadFile returns the response; processFile calls
\* startTranscription, which runs up to the await of api.startTranscription.
FileInfoOk(o) ==
    /\ ~MicrotaskPending
    /\ ops[o].pc = "fileinfo"
    /\ fileInfo' = o
    /\ transcriptionState' =
           [TranscriptionInit EXCEPT !.status = "processing"]
    /\ toastIdRef' = StartToast(o)
    /\ ops' = [ops EXCEPT ![o].pc = "submitting", ![o].fileId = SubmittedFileId(o)]
    /\ UNCHANGED <<effects, cancelled, uploadState, uploadedFile, stopPollingRef, wsRef,
                   abortControllers, loops, chans>>

\* Mutant: the requests are made for the jobId found in the job state.
RequestedTaskFromState(response) == transcriptionState.taskId

\* The jobId pollTaskStatus and connectWebSocket are given: response.task_id.
RequestedTask(response) == response.task_id

\* What startTranscription puts on the wire after the submit response: the first
\* status request of pollTaskStatus, then, unless the WebSocket constructor
\* throws, the connection request of connectWebSocket.
StartRequests(response, wsOk) ==
    <<[kind |-> "status", task |-> RequestedTask(response)]>> \o
    (IF wsOk THEN <<[kind |-> "socket", task |-> RequestedTask(response)]>> ELSE <<>>)

\* The submit request succeeds with {task_id: o, status: st}: the rest of the try
\* block.  pollTaskStatus runs poll() up to its first await and returns the stop
\* function; connectWebSocket either returns the socket or throws (wsOk = FALSE),
\* which the inner catch swallows.
SubmitOk(o, st, wsOk) ==
    /\ ~MicrotaskPending
    /\ ops[o].pc = "submitting"
    /\ transcriptionState' = [transcriptionState EXCEPT !.taskId = o, !.status = st]
    /\ loops' = [loops EXCEPT ![o] = [LoopInit EXCEPT !.pc = "inflight", !.requests = 1]]
    /\ stopPollingRef' = o
    /\ IF wsOk
         THEN /\ chans' = [chans EXCEPT ![o] = "open"]
              /\ wsRef' = o
         ELSE UNCHANGED <<chans, wsRef>>
    /\ effects' = [effects EXCEPT !.requests = StartRequests(Response(o, st), wsOk)]
    /\ ops' = [ops EXCEPT ![o] = [OpInit EXCEPT !.pc = "done", !.file = ops[o].file]]
    /\ UNCHANGED <<cancelled, uploadState, fileInfo, uploadedFile, toastIdRef, abortControllers>>

\* Mutant: the outer catch block leaves the job state as it was.
SubmitFailQuiet(o) ==
    /\ ~MicrotaskPending
    /\ ops[o].pc = "submitting"
    /\ toastIdRef' = 0
    /\ effects' = [effects EXCEPT !.onError = @ + 1]
    /\ ops' = [ops EXCEPT ![o] = [OpInit EXCEPT !.pc = "done", !.file = ops[o].file]]
    /\ UNCHANGED <<cancelled, uploadState, transcriptionState, fileInfo, uploadedFile,
                   stopPollingRef, wsRef, abortControllers, loops, chans>>

\* The submit request fails: the outer catch block.
SubmitFail(o) ==
    /\ ~MicrotaskPending
    /\ ops[o].pc = "submitting"
    /\ transcriptionState' =
           [transcriptionState EXCEPT !.status = "failed", !.error = MsgSubmitFailed]
    /\ toastIdRef' = 0
    /\ effects' = [effects EXCEPT !.onError = @ + 1]
    /\ ops' = [ops EXCEPT ![o] = [OpInit EXCEPT !.pc = "done", !.file = ops[o].file]]
    /\ UNCHANGED <<cancelled, uploadState, fileInfo, uploadedFile, stopPollingRef, wsRef,
                   abortControllers, loops, chans>>

\* ------------------------------------------------------------- pollTaskStatus
PollingInterval == 2000

\* Mutant: only a completed job ends the loop.
IsCompletedOnly(st) == st = "completed"

IsTerminal(st) == st \in {"completed", "failed"}

\* Mutant: onUpdate builds the new state from the state the closure captured
\* when startTranscription was called, not from the latest one.
OnUpdateFromSnapshot(prev, update, r) ==
    [TranscriptionInit EXCEPT !.status = update.status,
                              !.result = update,
                              !.progress = IF update.status = "completed" THEN 100 ELSE r]

\* The onUpdate callback startTranscription passes to pollTaskStatus; r is the
\* value Math.random() * 50 + 25 takes.
OnUpdate(prev, update, r) ==
    [prev EXCEPT !.status = update.status,
                 !.result = update,
                 !.progress = CASE update.status = "processing" -> r
                                [] update.status = "completed" -> 100
                                [] update.status = "failed" -> 0
                                [] OTHER -> prev.progress]

\* getTaskStatus resolves inside poll(): onUpdate, then stop or re-arm the timer.
PollOk(l, st, r) ==
    /\ ~MicrotaskPending
    /\ loops[l].pc = "inflight"
    /\ transcriptionState' = OnUpdate(transcriptionState, Response(l, st), r)
    /\ toastIdRef' = IF IsTerminal(st) THEN 0 ELSE toastIdRef
    /\ effects' = CASE st = "failed" -> [effects EXCEPT !.onError = @ + 1]
                     [] st = "completed" -> [effects EXCEPT !.onSuccess = @ + 1]
                     [] OTHER -> effects
    /\ loops' = [loops EXCEPT ![l] =
                    IF IsTerminal(st)
                      THEN LoopInit
                      ELSE [@ EXCEPT !.pc = "timer", !.delay = PollingInterval,
                                     !.requests = @ - 1, !.timers = @ + 1]]
    /\ UNCHANGED <<cancelled, uploadState, fileInfo, uploadedFile, stopPollingRef, wsRef,
                   abortControllers, ops, chans>>

\* Mutant: the retry waits three intervals.
RetryDelayTripled == PollingInterval * 3

\* The delay of the retry timer: interval * 2.
RetryDelay == PollingInterval * 2

\* Mutant: the catch block reports the failure before it re-arms the timer.
PollFailReported(l) ==
    /\ ~MicrotaskPending
    /\ loops[l].pc = "inflight"
    /\ loops' = [loops EXCEPT ![l].pc = "timer", ![l].delay = RetryDelay,
                              ![l].requests = @ - 1, ![l].timers = @ + 1]
    /\ effects' = [effects EXCEPT !.onError = @ + 1]
    /\ UNCHANGED <<cancelled, uploadState, transcriptionState, fileInfo, uploadedFile,
                   stopPollingRef, wsRef, toastIdRef, abortControllers, ops, chans>>

\* Mutant: the catch block gives up: it arms no timer and the loop ends.
PollFailGivesUp(l) ==
    /\ ~MicrotaskPending
    /\ loops[l].pc = "inflight"
    /\ loops' = [loops EXCEPT ![l] = LoopInit]
    /\ UNCHANGED <<effects, cancelled, uploadState, transcriptionState, fileInfo, uploadedFile,
                   stopPollingRef, wsRef, toastIdRef, abortControllers, ops, chans>>

\* getTaskStatus rejects inside poll(): the catch block re-arms the timer.
PollFail(l) ==
    /\ ~MicrotaskPending
    /\ loops[l].pc = "inflight"
    /\ loops' = [loops EXCEPT ![l].pc = "timer", ![l].delay = RetryDelay,
                              ![l].requests = @ - 1, ![l].timers = @ + 1]
    /\ UNCHANGED <<effects, cancelled, uploadState, transcriptionState, fileInfo, uploadedFile,
                   stopPollingRef, wsRef, toastIdRef, abortControllers, ops, chans>>

\* Mutant: poll() fetches without looking at the stopped flag.
PollTimerIgnoresStop(l) ==
    /\ ~MicrotaskPending
    /\ loops[l].pc = "timer"
    /\ loops' = [loops EXCEPT ![l] = [@ EXCEPT !.pc = "inflight", !.delay = 0,
                                                !.timers = @ - 1, !.requests = @ + 1]]
    /\ UNCHANGED <<effects, cancelled, uploadState, transcriptionState, fileInfo, uploadedFile,
                   stopPollingRef, wsRef, toastIdRef, abortControllers, ops, chans>>

\* The ways getTaskStatus rejects: no connection, the timeout of
\* fetchWithTimeout, a non-2xx answer (of which 404: the server does not know
\* the task).
StatusErrors == {"network", "timeout", "not_found", "server_error"}

\* getTaskStatus rejects with error e inside poll(): `catch (error)` does not
\* look at the error, so each of them is handled as PollFail.
PollReject(l, e) == e \in StatusErrors /\ PollFail(l)

\* Mutant: the timer repeats (setInterval): firing does not use it up.
PollTimerRepeats(l) ==
    /\ ~MicrotaskPending
    /\ loops[l].pc = "timer"
    /\ loops' = [loops EXCEPT ![l] = IF loops[l].stopped
                                         THEN LoopInit
                                         ELSE [@ EXCEPT !.pc = "inflight", !.delay = 0,
                                                        !.requests = @ + 1]]
    /\ UNCHANGED <<effects, cancelled, uploadState, transcriptionState, fileInfo, uploadedFile,
                   stopPollingRef, wsRef, toastIdRef, abortControllers, ops, chans>>

\* The timer set by poll() fires: poll() returns if stopped (the loop has ended),
\* else fetches again.
PollTimer(l) ==
    /\ ~MicrotaskPending
    /\ loops[l].pc = "timer"
    /\ loops' = [loops EXCEPT ![l] = IF loops[l].stopped
                                         THEN LoopInit
                                         ELSE [@ EXCEPT !.pc = "inflight", !.delay = 0,
                                                        !.timers = @ - 1,
                                                        !.requests = @ + 1]]
    /\ UNCHANGED <<effects, cancelled, uploadState, transcriptionState, fileInfo, uploadedFile,
                   stopPollingRef, wsRef, toastIdRef, abortControllers, ops, chans>>

\* ------------------------------------------------------------ push channel
\* onMessage, frame type "progress".
OnProgressFrame(prev, d) ==
    [prev EXCEPT !.progress = d.progress,
                 !.stage = IF d.stage # None THEN d.stage ELSE prev.stage,
                 !.message = IF d.message # None THEN d.message ELSE ""]

\* onMessage, frame type "status".
OnStatusFrame(prev, d) ==
    [prev EXCEPT !.status = d.status,
                 !.progress = IF d.progress # 0 THEN d.progress ELSE prev.progress]

\* onMessage, frame type "result".
OnResultFrame(prev, d) ==
    [prev EXCEPT !.status = "completed", !.progress = 100, !.result = d]

\* onMessage, frame type "error".
OnErrorFrame(prev, e) ==
    [prev EXCEPT !.status = "failed", !.error = e]

\* A message event on an open socket; the frame decides the branch.
WsFrame(c, next) ==
    /\ ~MicrotaskPending
    /\ chans[c] = "open"
    /\ transcriptionState' = next
    /\ UNCHANGED <<effects, cancelled, uploadState, fileInfo, uploadedFile, stopPollingRef, wsRef,
                   toastIdRef, abortControllers, ops, loops, chans>>

WsProgress(c, d) == WsFrame(c, OnProgressFrame(transcriptionState, d))

WsStatus(c, d) == WsFrame(c, OnStatusFrame(transcriptionState, d))

WsResult(c) == WsFrame(c, OnResultFrame(transcriptionState, Response(c, "completed")))

WsError(c, e) == WsFrame(c, OnErrorFrame(transcriptionState, e))

\* The error event of the socket (the connection failed or was dropped):
\* handlers.onError logs it.  The browser delivers no further frame and raises
\* the close event next, as after close(): "closing".
WsOnError(c) ==
    /\ ~MicrotaskPending
    /\ chans[c] = "open"
    /\ chans' = [chans EXCEPT ![c] = "closing"]
    /\ UNCHANGED <<effects, cancelled, uploadState, transcriptionState, fileInfo, uploadedFile,
                   stopPollingRef, wsRef, toastIdRef, abortControllers, ops, loops>>

\* Mutant: the close event fails the job.
WsCloseFailsJob(c) ==
    /\ ~MicrotaskPending
    /\ chans[c] \in {"open", "closing"}
    /\ chans' = [chans EXCEPT ![c] = "none"]
    /\ wsRef' = 0
    /\ transcriptionState' = [transcriptionState EXCEPT !.status = "failed", !.error = MsgPushError]
    /\ UNCHANGED <<effects, cancelled, uploadState, fileInfo, uploadedFile,
                   stopPollingRef, toastIdRef, abortControllers, ops, loops>>

\* The close event (after close(), after an error, or the server or network
\* dropping the socket): handlers.onClose clears wsRef; the socket is gone.
WsClose(c) ==
    /\ ~MicrotaskPending
    /\ chans[c] \in {"open", "closing"}
    /\ chans' = [chans EXCEPT ![c] = "none"]
    /\ wsRef' = 0
    /\ UNCHANGED <<effects, cancelled, uploadState, transcriptionState, fileInfo, uploadedFile,
                   stopPollingRef, toastIdRef, abortControllers, ops, loops>>

\* --------------------------------------------------------------- cancel, reset
\* What cancel() does to UploadState.
CancelUploadState(us) ==
    IF us.file # None /\ us.uploading
      THEN [us EXCEPT !.uploading = FALSE, !.error = MsgCancelUpload]
      ELSE us

\* Mutant: cancel() fails the job whatever its phase.
CancelTranscriptionStateAlways(ts) ==
    [ts EXCEPT !.status = "failed", !.error = MsgCancelJob]

\* What cancel() does to TranscriptionState.
CancelTranscriptionState(ts) ==
    IF ts.status = "processing"
      THEN [ts EXCEPT !.status = "failed", !.error = MsgCancelJob]
      ELSE ts

\* api.cancelUpload(name) as called by cancel(): abort the stored xhr (an abort
\* event is raised only while the transfer is in flight) and delete the entry.
CancelUploadOps(us) ==
    IF us.file # None /\ us.uploading /\ abortControllers[us.file] # 0
         /\ ops[abortControllers[us.file]].pc = "uploading"
      THEN [ops EXCEPT ![abortControllers[us.file]].pc = "aborted"]
      ELSE ops

CancelUploadControllers(us) ==
    IF us.file # None /\ us.uploading
      THEN [abortControllers EXCEPT ![us.file] = 0]
      ELSE abortControllers

\* stopPollingRef.current?.() : the stop function sets the closure's flag (of no
\* effect once the loop has ended).
StopPolling ==
    IF stopPollingRef # 0 /\ loops[stopPollingRef].pc # "none"
      THEN [loops EXCEPT ![stopPollingRef].stopped = TRUE]
      ELSE loops

\* wsRef.current?.close()
CloseSocket ==
    IF wsRef # 0 /\ chans[wsRef] = "open"
      THEN [chans EXCEPT ![wsRef] = "closing"]
      ELSE chans

\* The calls made so far.
Started == {o \in OpIds : ops[o].pc # "idle"}

Cancel ==
    /\ ~MicrotaskPending
    /\ uploadState' = CancelUploadState(uploadState)
    /\ ops' = CancelUploadOps(uploadState)
    /\ abortControllers' = CancelUploadControllers(uploadState)
    /\ loops' = StopPolling
    /\ stopPollingRef' = 0
    /\ chans' = CloseSocket
    /\ wsRef' = 0
    /\ toastIdRef' = 0
    /\ transcriptionState' = CancelTranscriptionState(transcriptionState)
    /\ cancelled' = Started
    /\ UNCHANGED <<fileInfo, uploadedFile, effects>>

\* reset(): cancel() when something is in progress, then the initial state and
\* the cleanup of the three refs.
Reset ==
    /\ ~MicrotaskPending
    /\ LET busy == uploadState.uploading \/ transcriptionState.status = "processing"
       IN  /\ ops' = IF busy THEN CancelUploadOps(uploadState) ELSE ops
           /\ abortControllers' =
                  IF busy THEN CancelUploadControllers(uploadState) ELSE abortControllers
           /\ cancelled' = IF busy THEN Started ELSE cancelled
    /\ uploadState' = UploadInit
    /\ transcriptionState' = TranscriptionInit
    /\ fileInfo' = 0
    /\ uploadedFile' = 0
    /\ loops' = StopPolling
    /\ stopPollingRef' = 0
    /\ chans' = CloseSocket
    /\ wsRef' = 0
    /\ toastIdRef' = 0
    /\ UNCHANGED effects

\* ------------------------------------------------- downloadResult, copyToClipboard
\* downloadResult(format): an error toast when the job state has no taskId, else
\* the request api.downloadResult(taskId, format); what follows the request
\* (saving the blob, or an error toast) changes nothing of the controller.
DownloadResult(fmt) ==
    /\ ~MicrotaskPending
    /\ effects' = IF transcriptionState.taskId = 0
                    THEN effects
                    ELSE [effects EXCEPT !.download =
                             [task |-> transcriptionState.taskId, format |-> fmt]]
    /\ UNCHANGED <<cancelled, uploadState, transcriptionState, fileInfo, uploadedFile,
                   stopPollingRef, wsRef, toastIdRef, abortControllers, ops, loops, chans>>

\* result?.text: the server sends the text with a completed job only.
HasText(result) == result.status = "completed"

\* copyToClipboard(): an error toast when the result has no text, else
\* navigator.clipboard.writeText(result.text), whose failure is caught.
CopyToClipboard ==
    /\ ~MicrotaskPending
    /\ effects' = IF HasText(transcriptionState.result)
                    THEN [effects EXCEPT !.clipboard = transcriptionState.result.task_id]
                    ELSE effects
    /\ UNCHANGED <<cancelled, uploadState, transcriptionState, fileInfo, uploadedFile,
                   stopPollingRef, wsRef, toastIdRef, abortControllers, ops, loops, chans>>

\* ------------------------------------------------------------ specification
\* The callbacks of the processFile call o, of its polling loop and the close of
\* its socket, with the statuses and random values drawn from the given sets.
OpStep(o, submitStatuses, pollStatuses, randoms) ==
    \/ \E p \in XhrProgress : UploadProgress(o, p)
    \/ UploadOk(o)
    \/ UploadFail(o)
    \/ UploadAborted(o)
    \/ FileInfoFail(o)
    \/ FileInfoOk(o)
    \/ \E st \in submitStatuses, wsOk \in BOOLEAN : SubmitOk(o, st, wsOk)
    \/ SubmitFail(o)
    \/ \E st \in pollStatuses, r \in randoms : PollOk(o, st, r)
    \/ PollFail(o)
    \/ PollTimer(o)
    \/ WsOnError(o)
    \/ WsClose(o)

\* The frames the socket of call o delivers.
PushStep(o) ==
    \/ \E d \in ProgressFrames : WsProgress(o, d)
    \/ \E d \in StatusFrames : WsStatus(o, d)
    \/ WsResult(o)
    \/ \E e \in ErrorFrames : WsError(o, e)

\* Nothing of an earlier call is left: its promise has settled, its polling loop
\* has ended and its socket has closed.
Retired ==
    \A p \in OpIds : /\ ops[p].pc \in {"idle", "done"}
                     /\ loops[p].pc = "none"
                     /\ chans[p] = "none"

\* Sessions one after the other on one controller: the caller starts a call only
\* when the earlier one is retired.  The remote side may send every payload.
Next ==
    \/ \E o \in OpIds :
          \/ \E f \in FileNames : Retired /\ ProcessFile(o, f)
          \/ OpStep(o, SubmitStatuses, TaskStatus, PollRandom)
          \/ PushStep(o)
    \/ Cancel
    \/ Reset

Spec == Init /\ [][Next]_vars

\* The computed flag isProcessing the hook returns.
isProcessing == uploadState.uploading \/ transcriptionState.status = "processing"

\* Calls made the way the upload card makes them, at any time at which
\* isProcessing is false, also while an earlier call is not retired.  The job is
\* accepted as processing, polls report processing or completed, and the
\* socket, when it opens, delivers no frame before it closes.
GuardedNext ==
    \/ \E o \in OpIds :
          \/ \E f \in FileNames : ~isProcessing /\ ProcessFile(o, f)
          \/ OpStep(o, {"processing"}, {"processing", "completed"}, {50})
    \/ Cancel
    \/ Reset

GuardedSpec == Init /\ [][GuardedNext]_vars

\* The state the controller exposes and its refs are as after construction.
FreshController ==
    /\ uploadState = UploadInit
    /\ transcriptionState = TranscriptionInit
    /\ fileInfo = 0
    /\ uploadedFile = 0
    /\ stopPollingRef = 0
    /\ wsRef = 0
    /\ toastIdRef = 0

\* The callbacks of call o when the job is accepted as processing and polls
\* report processing or completed.
ReducedStep(o) == OpStep(o, {"processing"}, {"processing", "completed"}, {50})

\* Calls made when the earlier one is retired or after reset(), whatever of the
\* earlier call is still in flight then.
ResetNext ==
    \/ \E o \in OpIds :
          \/ \E f \in FileNames : (Retired \/ FreshController) /\ ProcessFile(o, f)
          \/ ReducedStep(o)
    \/ Cancel
    \/ Reset

ResetSpec == Init /\ [][ResetNext]_vars

\* Sessions one after the other, with the download and copy buttons of the
\* result viewer pressed at any time.
ViewNext ==
    \/ \E o \in OpIds :
          \/ \E f \in FileNames : Retired /\ ProcessFile(o, f)
          \/ ReducedStep(o)
    \/ Cancel
    \/ Reset
    \/ \E fmt \in Formats : DownloadResult(fmt)
    \/ CopyToClipboard

ViewSpec == Init /\ [][ViewNext]_vars

\* ------------------------------------------------ the transport client, directly
\* Mutant: xhr.abort() raises the abort event also after the transfer has ended.
AbortRaisedAlways(os, c) == os[c].pc \in {"uploading", "fileinfo"}

\* controller.abort() is xhr.abort(): the abort event is raised, and the upload
\* promise rejected, only while the transfer of call c is in flight.
AbortRaised(os, c) == os[c].pc = "uploading"

\* api.cancelUpload(f) on the table ctrls and the calls os: what it leaves.
CancelUploadIn(f, ctrls, os) ==
    IF ctrls[f] # 0
      THEN [abortControllers |-> [ctrls EXCEPT ![f] = 0],
            ops |-> IF AbortRaised(os, ctrls[f])
                      THEN [os EXCEPT ![ctrls[f]].pc = "aborted"]
                      ELSE os]
      ELSE [abortControllers |-> ctrls, ops |-> os]

\* api.cancelUpload(f) called by any caller at any time.
CancelUpload(f) ==
    /\ ~MicrotaskPending
    /\ abortControllers' = CancelUploadIn(f, abortControllers, ops).abortControllers
    /\ ops' = CancelUploadIn(f, abortControllers, ops).ops
    /\ UNCHANGED <<uploadState, transcriptionState, fileInfo, uploadedFile, stopPollingRef,
                   wsRef, toastIdRef, loops, chans, cancelled, effects>>

\* The stop function pollTaskStatus returned for loop l, called by any holder at
\* any time (of no effect once the loop has ended).
StopHandle(l) ==
    /\ ~MicrotaskPending
    /\ loops' = IF loops[l].pc # "none" THEN [loops EXCEPT ![l].stopped = TRUE] ELSE loops
    /\ UNCHANGED <<uploadState, transcriptionState, fileInfo, uploadedFile, stopPollingRef,
                   wsRef, toastIdRef, abortControllers, ops, chans, cancelled, effects>>

\* Sessions one after the other, with cancelUpload and the stop functions of
\* the transport client also called directly, at any time.
ClientNext ==
    \/ \E o \in OpIds :
          \/ \E f \in FileNames : Retired /\ ProcessFile(o, f)
          \/ ReducedStep(o)
          \/ StopHandle(o)
    \/ \E f \in FileNames : CancelUpload(f)
    \/ Cancel
    \/ Reset

ClientSpec == Init /\ [][ClientNext]_vars

\* Push frames whose progress field is whatever the server put on the wire: a
\* percentage above 100 next to the payloads above.
WireProgressFrames ==
    ProgressFrames \cup {[progress |-> 150, stage |-> None, message |-> None]}

WireStatusFrames == [status : {"processing"}, progress : {0, 40, 150}]

\* Sessions one after the other, the socket delivering progress and status
\* frames with any progress value.
WireNext ==
    \/ \E o \in OpIds :
          \/ \E f \in FileNames : Retired /\ ProcessFile(o, f)
          \/ ReducedStep(o)
          \/ \E d \in WireProgressFrames : WsProgress(o, d)
          \/ \E d \in WireStatusFrames : WsStatus(o, d)
    \/ Cancel
    \/ Reset

WireSpec == Init /\ [][WireNext]_vars

\* Sessions one after the other that the user neither cancels nor resets (so
\* no transfer is aborted): every other callback, with every payload.
LiveNext ==
    \E o \in OpIds :
        \/ \E f \in FileNames : Retired /\ ProcessFile(o, f)
        \/ \E p \in XhrProgress : UploadProgress(o, p)
        \/ UploadOk(o)
        \/ UploadFail(o)
        \/ FileInfoFail(o)
        \/ FileInfoOk(o)
        \/ \E st \in SubmitStatuses, wsOk \in BOOLEAN : SubmitOk(o, st, wsOk)
        \/ SubmitFail(o)
        \/ \E st \in TaskStatus, r \in PollRandom : PollOk(o, st, r)
        \/ PollFail(o)
        \/ PollTimer(o)
        \/ WsOnError(o)
        \/ WsClose(o)
        \/ PushStep(o)

\* A status request of loop l is answered with a terminal status.
TerminalReply(l) ==
    \E st \in {"completed", "failed"}, r \in PollRandom : PollOk(l, st, r)

\* The event loop runs every timer that is due (weak fairness of PollTimer), and
\* the remote side, asked again and again, at some point answers a status
\* request with a terminal status (strong fairness of TerminalReply: the request
\* is not in flight all the time, and any finite run of failed or non-terminal
\* answers may come first).
LiveSpec ==
    /\ Init
    /\ [][LiveNext]_vars
    /\ \A l \in OpIds : WF_vars(PollTimer(l)) /\ SF_vars(TerminalReply(l))

\* ------------------------------------------------------------------ claims
\* The phase order Pending < Uploading < Processing < {Completed, Failed}.
Rank(st) ==
    CASE st = "pending" -> 0
      [] st = "uploading" -> 1
      [] st = "processing" -> 2
      [] OTHER -> 3

\* A step that delivers to onUpdate the poll response of a loop that was not
\* stopped, or a push frame to onMessage.
PollUpdate ==
    \E l \in OpIds, st \in TaskStatus, r \in PollRandom : ~loops[l].stopped /\ PollOk(l, st, r)
PushUpdate == \E c \in OpIds : PushStep(c)

\* A polling loop that still fetches: a request in flight or a timer armed, and
\* its stop function not called.
Running(l) == loops[l].pc \in {"inflight", "timer"} /\ ~loops[l].stopped

\* C1: no poll update and no push frame moves the phase to an earlier one in the
\* order Pending < Uploading < Processing < {Completed, Failed}.
C1_PhaseNeverMovesBack ==
    [][(PollUpdate \/ PushUpdate) =>
          Rank(transcriptionState'.status) >= Rank(transcriptionState.status)]_vars

\* C2: once the phase is Completed or Failed, no poll update and no push frame
\* changes phase, result or error.
C2_TerminalIsSticky ==
    [][(IsTerminal(transcriptionState.status) /\ (PollUpdate \/ PushUpdate)) =>
          /\ transcriptionState'.status = transcriptionState.status
          /\ transcriptionState'.result = transcriptionState.result
          /\ transcriptionState'.error = transcriptionState.error]_vars

\* C3: while the phase is Processing, no poll update and no push frame lowers
\* the accepted progress.
C3_ProgressNeverDecreases ==
    [][(/\ transcriptionState.status = "processing"
        /\ transcriptionState'.status = "processing"
        /\ (PollUpdate \/ PushUpdate)) =>
          transcriptionState'.progress >= transcriptionState.progress]_vars

\* C4: whenever the phase is Completed, a result is present.
C4_CompletedHasResult ==
    transcriptionState.status = "completed" => transcriptionState.result # NoResult

\* C5: whenever the phase is Failed, an error is present.
C5_FailedHasError ==
    transcriptionState.status = "failed" => transcriptionState.error # None

RunningLoops == {l \in OpIds : Running(l)}
OpenChannels == {c \in OpIds : chans[c] = "open"}

\* C6: at most one polling loop is live and at most one push channel is open.
C6_AtMostOneActiveJob ==
    /\ Cardinality(RunningLoops) <= 1
    /\ Cardinality(OpenChannels) <= 1

\* C7: cancel() called while the phase is Processing, one polling loop is
\* running and one push channel is open leaves no loop running and no channel
\* open, both refs cleared, and the phase Failed with the cancellation error.
C7_CancelWhileProcessing ==
    [][(/\ Cancel
        /\ transcriptionState.status = "processing"
        /\ Cardinality(RunningLoops) = 1
        /\ Cardinality(OpenChannels) = 1) =>
          /\ RunningLoops' = {}
          /\ OpenChannels' = {}
          /\ stopPollingRef' = 0
          /\ wsRef' = 0
          /\ transcriptionState'.status = "failed"
          /\ transcriptionState'.error = MsgCancelJob]_vars

\* C8: the response of a status request that resolves after the loop's stop
\* function was called is not delivered: it changes nothing of the job state.
C8_StoppedLoopIsSilent ==
    [][\A l \in OpIds :
          (loops[l].stopped /\ \E st \in TaskStatus, r \in PollRandom : PollOk(l, st, r))
             => UNCHANGED transcriptionState]_vars

\* C9: a call that was under way when cancel() was called has no upload in
\* flight, no running polling loop and no open push channel afterwards.
C9_NothingAfterCancel ==
    \A o \in cancelled : /\ ops[o].pc # "uploading"
                         /\ ~Running(o)
                         /\ chans[o] # "open"

\* C10: after cancel() a further cancel() would change neither UploadState nor
\* the job state; cancel() with the phase Pending and nothing in flight changes
\* no state; cancel() with a terminal phase keeps phase, result and error.
C10_CancelIdempotent ==
    [][Cancel =>
          /\ CancelUploadState(uploadState') = uploadState'
          /\ CancelTranscriptionState(transcriptionState') = transcriptionState'
          /\ (transcriptionState.status = "pending" /\ Retired /\ ~uploadState.uploading)
                => UNCHANGED <<uploadState, transcriptionState, fileInfo, uploadedFile,
                               abortControllers, ops, loops, chans>>
          /\ IsTerminal(transcriptionState.status)
                => /\ transcriptionState'.status = transcriptionState.status
                   /\ transcriptionState'.result = transcriptionState.result
                   /\ transcriptionState'.error = transcriptionState.error]_vars

\* C10 witness: cancel() has turned a Processing job into Failed and cleared the
\* refs; a further cancel() is enabled there.
C10_Witness ==
    /\ cancelled # {}
    /\ transcriptionState.status = "failed"
    /\ transcriptionState.error = MsgCancelJob
    /\ uploadState.error = MsgUploadCancelled
    /\ stopPollingRef = 0
    /\ wsRef = 0

\* The rejection reset() raised by aborting the upload reaches uploadFile's catch
\* block: only reset() leaves an aborted call with no file in UploadState.
ResetAbortHandled == uploadState.file = None /\ \E o \in OpIds : UploadAborted(o)

\* C11: once reset() and the promise rejection it raised have run, UploadState
\* and the job state equal their initial values, the three refs are cleared,
\* the polling loop whose stop function was held is stopped and the socket that
\* was held is no longer open.
C11_ResetRestoresInitial ==
    [][((Reset \/ ResetAbortHandled) /\ ~MicrotaskPending') =>
          /\ uploadState' = UploadInit
          /\ transcriptionState' = TranscriptionInit
          /\ stopPollingRef' = 0
          /\ wsRef' = 0
          /\ toastIdRef' = 0
          /\ stopPollingRef # 0 => loops'[stopPollingRef].stopped
          /\ wsRef # 0 => chans'[wsRef] # "open"]_vars

\* C12: after reset() and a new processFile call, no callback of an earlier call
\* (upload events, submit response, status responses, timers, socket events)
\* changes the state the controller exposes or its refs.
C12_ResetThenProcessIsFresh ==
    [][\A p \in OpIds :
          ((\E q \in Started : q > p) /\ ReducedStep(p)) =>
              UNCHANGED <<uploadState, transcriptionState, fileInfo, uploadedFile,
                          stopPollingRef, wsRef, toastIdRef>>]_vars

\* The call l is the latest one: no newer session has been started.
Latest(l) == l \in Started /\ \A q \in Started : q <= l

\* C13: the submit response of a session stores its jobId, and every poll update
\* of its running loop and every push frame of its socket, delivered while no
\* newer session was started, finds that jobId in the job state and leaves it.
C13_JobIdKept ==
    [][\A l \in OpIds :
          /\ (\E st \in SubmitStatuses, wsOk \in BOOLEAN : SubmitOk(l, st, wsOk))
                => transcriptionState'.taskId = l
          /\ (/\ Latest(l)
              /\ \/ ~loops[l].stopped /\ \E st \in TaskStatus, r \in PollRandom : PollOk(l, st, r)
                 \/ PushStep(l))
                => /\ transcriptionState.taskId = l
                   /\ transcriptionState'.taskId = l]_vars

\* The call has ended and has no polling loop and no socket.
Finished(o) == ops[o].pc = "done" /\ loops[o].pc = "none" /\ chans[o] = "none"

\* C14: when the transfer fails or is aborted, uploadFile sets UploadState.error
\* with uploading false and returns null, the job state and both refs are left
\* as they were (phase Pending stays Pending), and the call never submits a
\* job, starts a polling loop or opens a socket.
C14_UploadFailure ==
    [][\A o \in OpIds :
          /\ (UploadFail(o) \/ UploadAborted(o)) =>
                /\ uploadState'.error # None
                /\ ~uploadState'.uploading
                /\ UNCHANGED <<transcriptionState, stopPollingRef, wsRef, loops, chans>>
                /\ Finished(o)'
          /\ Finished(o) => Finished(o)']_vars

\* C14 witness: a failed transfer on a controller whose phase is Pending.
C14_Witness ==
    \E o \in OpIds :
        /\ Finished(o)
        /\ uploadState.error = MsgUploadFailed
        /\ ~uploadState.uploading
        /\ transcriptionState = TranscriptionInit

\* C15: when the submit request fails, the phase becomes Failed with the
\* submission error, both refs are left as they were and hold nothing of this
\* call, and the call never starts a polling loop or opens a socket.
C15_SubmitFailure ==
    [][\A o \in OpIds :
          /\ SubmitFail(o) =>
                /\ transcriptionState'.status = "failed"
                /\ transcriptionState'.error = MsgSubmitFailed
                /\ UNCHANGED <<stopPollingRef, wsRef, loops, chans>>
                /\ stopPollingRef' # o
                /\ wsRef' # o
                /\ Finished(o)'
          /\ Finished(o) => Finished(o)']_vars

\* C15 witness: a failed submission on a controller whose refs are empty.
C15_Witness ==
    \E o \in OpIds :
        /\ Finished(o)
        /\ transcriptionState.status = "failed"
        /\ transcriptionState.error = MsgSubmitFailed
        /\ stopPollingRef = 0
        /\ wsRef = 0

\* C16: a call issues the submit request only in the step in which its
\* uploadFile returns the upload response, with the file id of that response;
\* a call whose uploadFile returns null leaves the job state as it is and never
\* submits.
C16_SubmitAfterUpload ==
    [][\A o \in OpIds :
          /\ (ops'[o].pc = "submitting" /\ ops[o].pc # "submitting") =>
                /\ ops[o].pc = "fileinfo"
                /\ ops[o].response = o
          /\ ops'[o].pc = "submitting" => ops'[o].fileId = o
          /\ (ops[o].pc \in {"uploading", "aborted", "fileinfo"} /\ ops'[o].pc = "done") =>
                UNCHANGED transcriptionState
          /\ ops[o].pc = "done" => ops'[o].pc = "done"]_vars

\* C16 witness: a submit request in flight with the file id of the call's own
\* upload, after reset() cleared the uploadedFile state.
C16_Witness ==
    \E o \in OpIds :
        /\ ops[o].pc = "submitting"
        /\ ops[o].fileId = o
        /\ uploadedFile = 0

\* C17: every status response that resolves is delivered to onUpdate (the job
\* state takes its status and keeps it as result); after a response with
\* status completed or failed the loop has ended, with no timer and no request,
\* and the loop of a call never starts again; after any other response one
\* timer is armed.
C17_PollStopsOnTerminal ==
    [][\A l \in OpIds :
          /\ (loops[l].pc = "inflight" /\ loops'[l].pc # "inflight") =>
                \A st \in TaskStatus :
                    (\E r \in PollRandom : PollOk(l, st, r)) =>
                        /\ transcriptionState'.status = st
                        /\ transcriptionState'.result = Response(l, st)
                        /\ loops'[l].pc =
                               IF st \in {"completed", "failed"} THEN "none" ELSE "timer"
          /\ (ops[l].pc = "done" /\ loops[l].pc = "none") => loops'[l].pc = "none"]_vars

\* C17 witness: a loop ended by the failed response it delivered.
C17_Witness ==
    \E l \in OpIds :
        /\ ops[l].pc = "done"
        /\ loops[l].pc = "none"
        /\ transcriptionState.status = "failed"
        /\ transcriptionState.result = Response(l, "failed")

\* C18: a status request that fails leaves the loop alive with one timer armed
\* for 2 x the base interval; no timer is ever armed for longer, however many
\* requests failed before; after a response that does not end the loop the
\* timer is armed for the base interval.
C18_PollRetryDelay ==
    [][\A l \in OpIds :
          /\ PollFail(l) =>
                /\ loops'[l].pc = "timer"
                /\ loops'[l].delay = 2 * PollingInterval
                /\ loops'[l].stopped = loops[l].stopped
          /\ (loops[l].pc = "inflight" /\ loops'[l].pc = "timer" /\ ~PollFail(l)) =>
                loops'[l].delay = PollingInterval
          /\ loops'[l].delay <= 2 * PollingInterval
          /\ loops'[l].pc = "timer" <=> loops'[l].delay > 0]_vars

\* C18 witness: a retry timer armed after a failed request that followed a
\* delivered response.
C18_Witness ==
    \E l \in OpIds :
        /\ loops[l].pc = "timer"
        /\ loops[l].delay = 2 * PollingInterval
        /\ ~loops[l].stopped
        /\ transcriptionState.result = Response(l, "processing")

\* C19: the error event and the close event of a socket change nothing of
\* UploadState and the job state, call no onError and leave every polling loop
\* and the stop handle as they are; when connectWebSocket throws,
\* startTranscription still stores the submit response, starts the polling loop
\* and returns normally, with no onError call and no change of UploadState.
C19_ChannelFailureSwallowed ==
    [][\A c \in OpIds :
          /\ (WsOnError(c) \/ WsClose(c)) =>
                UNCHANGED <<uploadState, transcriptionState, effects, loops, ops, stopPollingRef>>
          /\ ops[c].pc = "submitting" =>
                \A st \in SubmitStatuses :
                    SubmitOk(c, st, FALSE) =>
                        /\ UNCHANGED uploadState
                        /\ effects'.onError = effects.onError
                        /\ transcriptionState' =
                               [transcriptionState EXCEPT !.taskId = c, !.status = st]
                        /\ Running(c)'
                        /\ stopPollingRef' = c
                        /\ ops'[c].pc = "done"]_vars

\* C19 witness: the session polls on with no socket and no error reported.
C19_Witness ==
    \E c \in OpIds :
        /\ ops[c].pc = "done"
        /\ chans[c] = "none"
        /\ wsRef = 0
        /\ Running(c)
        /\ stopPollingRef = c
        /\ transcriptionState.status = "processing"
        /\ transcriptionState.taskId = c
        /\ transcriptionState.error = None
        /\ effects.onError = 0

\* C20: downloadResult and copyToClipboard leave UploadState and the job state
\* as they are, and while the job state has no result downloadResult issues no
\* request and copyToClipboard writes nothing to the clipboard.
C20_NoResultNoDownload ==
    [][/\ (\E fmt \in Formats : DownloadResult(fmt)) =>
             /\ UNCHANGED <<uploadState, transcriptionState>>
             /\ transcriptionState.result = NoResult => effects'.download = effects.download
       /\ CopyToClipboard =>
             /\ UNCHANGED <<uploadState, transcriptionState>>
             /\ transcriptionState.result = NoResult => effects'.clipboard = effects.clipboard]_vars

\* C21: the poll update or push frame that moves the phase to Failed comes with
\* the one failure notification of the session, and a session never has more
\* than one terminal notification, of success or of failure.
C21_OneFailureNotification ==
    [][/\ (/\ PollUpdate \/ PushUpdate
           /\ transcriptionState.status # "failed"
           /\ transcriptionState'.status = "failed") =>
              /\ effects'.onError = 1
              /\ effects'.onSuccess = 0
       /\ effects'.onError + effects'.onSuccess <= 1]_vars

\* C22: a poll update or push frame changes result only when there is none yet
\* and the update moves the phase into Completed.
C22_ResultWrittenOnce ==
    [][(/\ PollUpdate \/ PushUpdate
        /\ transcriptionState'.result # transcriptionState.result) =>
           /\ transcriptionState.result = NoResult
           /\ transcriptionState.status # "completed"
           /\ transcriptionState'.status = "completed"]_vars

\* C23: when the rejection of a transfer that cancel() aborted is handled, no
\* onError call (and so no error notification) is made.
C23_AbortNotReported ==
    [][\A o \in OpIds :
          (ops[o].pc = "aborted" /\ UploadAborted(o)) =>
              effects'.onError = effects.onError]_vars

\* C24: a cancelUpload call changes nothing but the table and the transfer it
\* aborts; it aborts a transfer only when that transfer is in flight; with no
\* entry for the name (never started, or cancelled before) it changes nothing
\* at all; and a second call right after the first leaves what the first left.
C24_CancelUploadIdempotent ==
    [][\A f \in FileNames :
          (~MicrotaskPending /\ CancelUpload(f)) =>
              LET once == CancelUploadIn(f, abortControllers, ops)
                  twice == CancelUploadIn(f, once.abortControllers, once.ops)
              IN  /\ twice = once
                  /\ abortControllers'[f] = 0
                  /\ \A o \in OpIds :
                        ops'[o] # ops[o] =>
                            /\ ops[o].pc = "uploading"
                            /\ abortControllers[f] = o
                            /\ ops'[o] = [ops[o] EXCEPT !.pc = "aborted"]
                  /\ Cardinality({o \in OpIds : ops'[o] # ops[o]}) <= 1
                  /\ abortControllers[f] = 0 => UNCHANGED vars]_vars

\* C24 witness: the entry of a transfer that has completed was removed by a
\* cancelUpload call, and the call goes on to its file info request.
C24_Witness ==
    \E o \in OpIds :
        /\ ops[o].pc = "fileinfo"
        /\ abortControllers[ops[o].file] = 0

\* C25: a progress event never lowers UploadState.progress and keeps it within
\* 0..100; a successful transfer leaves it at 100; a transfer that fails or is
\* aborted does not leave it at 100.
C25_UploadProgress ==
    [][\A o \in OpIds :
          /\ (ops[o].pc = "uploading" /\ \E p \in XhrProgress : UploadProgress(o, p)) =>
                /\ uploadState'.progress >= uploadState.progress
                /\ uploadState'.progress \in 0..100
          /\ (ops[o].pc = "uploading" /\ UploadOk(o)) => uploadState'.progress = 100
          /\ (\/ ops[o].pc = "uploading" /\ UploadFail(o)
              \/ ops[o].pc = "aborted" /\ UploadAborted(o)) =>
                uploadState'.progress < 100]_vars

\* C26: in every reachable state JobState.progress is within 0..100.
C26_JobProgressInRange == transcriptionState.progress \in 0..100

\* C27: a polling loop is started and a socket opened only by the step that
\* receives a successful submit response; that step first issues the status
\* request of the loop and then the connection request of the socket, both for
\* the jobId the response carries; nothing else issues such a request.
C27_StartJobOrdering ==
    [][/\ \A o \in OpIds :
            /\ (\/ loops[o].pc = "none" /\ loops'[o].pc # "none"
                \/ chans[o] # "open" /\ chans'[o] = "open") =>
                   /\ ops[o].pc = "submitting"
                   /\ \E st \in SubmitStatuses, wsOk \in BOOLEAN : SubmitOk(o, st, wsOk)
            /\ ops[o].pc = "submitting" =>
                   \A st \in SubmitStatuses, wsOk \in BOOLEAN :
                       SubmitOk(o, st, wsOk) =>
                           LET job == Response(o, st).task_id
                               sent == effects'.requests
                           IN  /\ Len(sent) = IF wsOk THEN 2 ELSE 1
                               /\ sent[1] = [kind |-> "status", task |-> job]
                               /\ wsOk => sent[2] = [kind |-> "socket", task |-> job]
                               /\ Running(o)'
                               /\ wsOk <=> chans'[o] = "open"
                               /\ transcriptionState'.taskId = job
       /\ effects'.requests # effects.requests =>
              \/ effects'.requests = <<>>
              \/ \E o \in OpIds :
                     /\ ops[o].pc = "submitting"
                     /\ \E st \in SubmitStatuses, wsOk \in BOOLEAN : SubmitOk(o, st, wsOk)]_vars

\* C27 witness: a session that issued its status request and then its socket
\* request, with the loop in flight and the socket open.
C27_Witness ==
    \E o \in OpIds :
        /\ Len(effects.requests) = 2
        /\ effects.requests[1].kind = "status"
        /\ effects.requests[2] = [kind |-> "socket", task |-> o]
        /\ loops[o].pc = "inflight"
        /\ chans[o] = "open"
        /\ transcriptionState.taskId = o

\* C28: a loop whose stop function was called, or that has ended, issues no new
\* status request, whatever it was doing when the call came; the flag stays set
\* until the loop has ended; and a further call of the stop function changes
\* nothing.
C28_NoRequestAfterStop ==
    [][\A l \in OpIds :
          /\ (loops[l].stopped \/ (ops[l].pc = "done" /\ loops[l].pc = "none")) =>
                ~(loops[l].pc # "inflight" /\ loops'[l].pc = "inflight")
          /\ loops[l].stopped => (loops'[l].stopped \/ loops'[l].pc = "none")
          /\ ((loops[l].stopped \/ loops[l].pc = "none") /\ StopHandle(l)) =>
                UNCHANGED vars]_vars

\* C28 witness: a loop stopped through its stop function (the stop handle is
\* still stored) with a timer pending.
C28_Witness ==
    \E l \in OpIds :
        /\ loops[l].stopped
        /\ loops[l].pc = "timer"
        /\ stopPollingRef = l

\* C29: a status request that fails inside the polling loop calls neither
\* onUpdate nor onError and leaves JobState, UploadState and every other state
\* of the controller as they were; only the loop's timer is armed again.
C29_PollFailureAbsorbed ==
    [][\A l \in OpIds :
          (loops[l].pc = "inflight" /\ PollFail(l)) =>
              /\ UNCHANGED <<transcriptionState, uploadState, effects, toastIdRef, fileInfo,
                             uploadedFile, stopPollingRef, wsRef>>
              /\ loops'[l].pc = "timer"
              /\ loops'[l].stopped = loops[l].stopped]_vars

\* C29 witness: the first status request of a session failed; the job state is
\* the one the submit response left and nothing was reported.
C29_Witness ==
    \E l \in OpIds :
        /\ loops[l].pc = "timer"
        /\ loops[l].delay = RetryDelay
        /\ transcriptionState.taskId = l
        /\ transcriptionState.result = NoResult
        /\ effects.onError = 0
        /\ effects.onSuccess = 0

\* C30: when the status request of a running loop fails because the server does
\* not know the job, the phase becomes Failed with an error and the loop ends.
C30_NotFoundIsTerminal ==
    [][\A l \in OpIds :
          (loops[l].pc = "inflight" /\ ~loops[l].stopped /\ PollReject(l, "not_found")) =>
              /\ transcriptionState'.status = "failed"
              /\ transcriptionState'.error # None
              /\ loops'[l].pc = "none"]_vars

\* C31: whenever no upload and no submission is in flight and the phase is
\* Completed or Failed, the notification slot toastIdRef is empty.
C31_NotificationSlotRetired ==
    (/\ \A o \in OpIds : ops[o].pc \notin {"uploading", "aborted", "submitting"}
     /\ IsTerminal(transcriptionState.status)) =>
        toastIdRef = 0

\* C32: each update is applied to the latest job state and changes only the
\* fields it carries: a poll update keeps jobId, stage, message and error; a
\* push progress frame keeps jobId, phase, result and error; a push status
\* frame keeps jobId, result, stage, message and error.
C32_UpdatesPreserveOtherFields ==
    [][\A l \in OpIds :
          /\ (/\ loops[l].pc = "inflight"
              /\ \E st \in TaskStatus, r \in PollRandom : PollOk(l, st, r)) =>
                 /\ transcriptionState'.taskId = transcriptionState.taskId
                 /\ transcriptionState'.stage = transcriptionState.stage
                 /\ transcriptionState'.message = transcriptionState.message
                 /\ transcriptionState'.error = transcriptionState.error
          /\ (chans[l] = "open" /\ \E d \in ProgressFrames : WsProgress(l, d)) =>
                 /\ transcriptionState'.taskId = transcriptionState.taskId
                 /\ transcriptionState'.status = transcriptionState.status
                 /\ transcriptionState'.result = transcriptionState.result
                 /\ transcriptionState'.error = transcriptionState.error
          /\ (chans[l] = "open" /\ \E d \in StatusFrames : WsStatus(l, d)) =>
                 /\ transcriptionState'.taskId = transcriptionState.taskId
                 /\ transcriptionState'.result = transcriptionState.result
                 /\ transcriptionState'.stage = transcriptionState.stage
                 /\ transcriptionState'.message = transcriptionState.message
                 /\ transcriptionState'.error = transcriptionState.error]_vars

\* C32 witness: the job state holds the jobId of the submit response, the stage
\* and message of a push progress frame and the result of a poll update.
C32_Witness ==
    \E l \in OpIds :
        /\ transcriptionState.taskId = l
        /\ transcriptionState.stage = "decoding"
        /\ transcriptionState.message = "working"
        /\ transcriptionState.result = Response(l, "processing")
        /\ transcriptionState.status = "processing"

\* C33: with no cancel and no reset, timers that fire and a remote side that
\* eventually answers with a terminal status, every polling loop that runs
\* eventually has ended with the phase Completed or Failed, whether or not the
\* socket opened or delivered anything.
C33_PollingReachesTerminal ==
    \A l \in OpIds :
        (loops[l].pc # "none") ~>
            (loops[l].pc = "none" /\ IsTerminal(transcriptionState.status))

\* C33 witness: a session whose socket never opened has completed through its
\* polling loop, which has ended.
C33_Witness ==
    \E l \in OpIds :
        /\ effects.requests = <<[kind |-> "status", task |-> l]>>
        /\ effects.onSuccess = 1
        /\ transcriptionState.status = "completed"
        /\ loops[l].pc = "none"
        /\ chans[l] = "none"

\* C34: a polling loop never has more than one outstanding activity: at most
\* one status request in flight, at most one timer pending, and never both.
C34_OneOutstandingActivity ==
    \A l \in OpIds :
        /\ loops[l].requests \in {0, 1}
        /\ loops[l].timers \in {0, 1}
        /\ loops[l].requests + loops[l].timers <= 1
        /\ loops[l].pc = "inflight" <=> loops[l].requests = 1
        /\ loops[l].pc = "timer" <=> loops[l].timers = 1

\* C34 witness: a loop that went through a request, a timer and a second
\* request, which is the only thing outstanding.
C34_Witness ==
    \E l \in OpIds :
        /\ loops[l].requests = 1
        /\ loops[l].timers = 0
        /\ transcriptionState.result = Response(l, "processing")
        /\ loops[l].pc = "inflight"

\* C35: the close event of a socket that was closed earlier, of a call whose
\* polling loop has ended, does not clear wsRef while wsRef holds the open
\* socket of the latest session.
C35_StaleCloseKeepsHandle ==
    [][\A c \in OpIds :
          (/\ chans[c] = "closing"
           /\ ops[c].pc = "done"
           /\ loops[c].pc = "none"
           /\ wsRef \notin {0, c}
           /\ Latest(wsRef)
           /\ chans[wsRef] = "open"
           /\ WsClose(c)) =>
              wsRef' = wsRef]_vars

\* C36: isProcessing is true in every state in which a polling loop of the
\* controller is still running.
C36_BusyWhileLoopRuns ==
    \A l \in OpIds : Running(l) => isProcessing

\* C37: when the file info request that follows a successful transfer fails,
\* UploadState.error is left as it was and the call goes on to submit the job.
C37_FileInfoFailureNotFatal ==
    [][\A o \in OpIds :
          (ops[o].pc = "fileinfo" /\ FileInfoFail(o)) =>
              /\ uploadState'.error = uploadState.error
              /\ ops'[o].pc = "submitting"]_vars

\* C38: the table of abort handles holds an entry only for a transfer that is
\* in flight, and every transfer in flight has its entry.
C38_HandlesOnlyInFlight ==
    /\ \A f \in FileNames :
          abortControllers[f] # 0 => ops[abortControllers[f]].pc = "uploading"
    /\ \A o \in OpIds :
          ops[o].pc = "uploading" => abortControllers[ops[o].file] = o

====
